---- MODULE Spec2Model ----
(***************************************************************************)
(* Planning-poker room server (src/src/server.ts).                         *)
(*                                                                         *)
(* One Node.js process: a MongoDB collection of room documents, the        *)
(* in-memory map userSockets, and per connection the closure variables     *)
(* currentUserId / currentRoomId.  Every `await` of a handler is two       *)
(* steps of the model: the store applies the request (the Store actions),  *)
(* and later the handler resumes with the result (the Resume actions).     *)
(* Between the two, any other handler or store request may run.            *)
(***************************************************************************)
EXTENDS Integers, Sequences, FiniteSets, TLC

\* ---- bounds of the model ------------------------------------------------
NumConns == 2       \* WebSocket connections that may be opened
MaxUsers == 3       \* participant ids generateId() may hand out
MaxRooms == 1       \* room ids generateId() may hand out
MaxTasks == 2       \* handlers / cleanups that may be in flight at once
MaxCmds  == 4       \* commands the connections send in all
MaxLiveCmds == 3    \* the same, where runs are followed to their end

Conns   == 1..NumConns
UserIds == 1..MaxUsers
RoomIds == 1..MaxRooms
Tasks   == 1..MaxTasks
Votes   == {1, 2}   \* payloads of user:vote
Cards   == {1}      \* the deck every room:create of the model sends as cards
Names   == {"", "n"}  \* roomName / ownerName of room:create: empty or not
Null    == 0        \* null / undefined / no id / no socket

VARIABLES
    rooms,          \* the rooms collection: room id -> RoomDocument (exists = FALSE: no document)
    userSockets,    \* Map participant id -> connection (Null: no entry)
    wsOpen,         \* per connection: readyState = OPEN
    currentUserId,  \* per connection closure variable
    currentRoomId,  \* per connection closure variable
    tasks,          \* in-flight async handlers and cleanups
    nextUid,        \* next fresh participant id
    nextRid,        \* next fresh room id
    ncmds,          \* commands received so far
    deleted,        \* history: room ids whose document deleteOne removed
    sent            \* the messages the last step put on the wire, in order

vars == <<rooms, userSockets, wsOpen, currentUserId, currentRoomId, tasks,
          nextUid, nextRid, ncmds, deleted, sent>>

\* ---- documents ------------------------------------------------------------
NullDoc == [exists |-> FALSE, _id |-> Null, ownerId |-> Null, users |-> <<>>, revealed |-> FALSE]
NullRoom == [exists |-> FALSE, id |-> Null, ownerId |-> Null, users |-> <<>>, revealed |-> FALSE]

NewUser(id) == [id |-> id, isReady |-> "false", vote |-> Null, spectator |-> FALSE]

\* ownerId left unset
NewRoomNoOwner(rid, owner) ==
    [exists |-> TRUE, id |-> rid, ownerId |-> Null, users |-> <<owner>>, revealed |-> FALSE]

NewRoom(rid, owner) ==
    [exists |-> TRUE, id |-> rid, ownerId |-> owner.id, users |-> <<owner>>, revealed |-> FALSE]

roomToRoomDocument(room) ==
    [exists |-> room.exists, _id |-> room.id, ownerId |-> room.ownerId,
     users |-> room.users, revealed |-> room.revealed]

roomDocumentToRoom(doc) ==
    [exists |-> doc.exists, id |-> doc._id, ownerId |-> doc.ownerId,
     users |-> doc.users, revealed |-> doc.revealed]

UserIdsOf(doc) == {doc.users[i].id : i \in 1..Len(doc.users)}

\* ---- the store's operations (each one atomic on one document) -------------
findOne(rid) == IF rid \in RoomIds THEN rooms[rid] ELSE NullDoc

\* the filter on 'users.id' left out: every room document
RECURSIVE findEveryRoom(_, _)
findEveryRoom(uid, n) ==
    IF n = 0 THEN <<>>
    ELSE LET rest == findEveryRoom(uid, n - 1)
         IN  IF rooms[n].exists THEN Append(rest, rooms[n]) ELSE rest

\* find({'users.id': uid}).toArray()
RECURSIVE findByUser(_, _)
findByUser(uid, n) ==
    IF n = 0 THEN <<>>
    ELSE LET rest == findByUser(uid, n - 1)
         IN  IF rooms[n].exists /\ uid \in UserIdsOf(rooms[n])
             THEN Append(rest, rooms[n]) ELSE rest

\* the new element put in front instead of at the end
pushUserFront(doc, user) == [doc EXCEPT !.users = <<user>> \o @]

pushUser(doc, user) == [doc EXCEPT !.users = Append(@, user)]

\* the $pull also writes revealed
pullUserUnreveals(doc, uid) ==
    [doc EXCEPT !.users = SelectSeq(@, LAMBDA u : u.id # uid), !.revealed = FALSE]

pullUser(doc, uid) == [doc EXCEPT !.users = SelectSeq(@, LAMBDA u : u.id # uid)]

\* the positional operator $ : the first element matching 'users.id'
FirstMatch(doc, uid) == CHOOSE i \in 1..Len(doc.users) :
    /\ doc.users[i].id = uid
    /\ \A j \in 1..(i - 1) : doc.users[j].id # uid

\* isReady left as it is
setVoteNotReady(doc, uid, v) ==
    [doc EXCEPT !.users[FirstMatch(doc, uid)] = [@ EXCEPT !.vote = v]]

\* $set: { 'users.$.vote': vote, 'users.$.isReady': true }
setVote(doc, uid, v) ==
    [doc EXCEPT !.users[FirstMatch(doc, uid)] = [@ EXCEPT !.vote = v, !.isReady = "true"]]

\* the flag alone is written
setSpectatorFlagOnly(doc, uid, flag) ==
    [doc EXCEPT !.users[FirstMatch(doc, uid)] = [@ EXCEPT !.spectator = flag]]

\* 'users.$.isReady': spectator ? false : undefined, 'users.$.vote': spectator ? null :
\* undefined -- the driver (ignoreUndefined off) writes an undefined value as null
setSpectator(doc, uid, flag) ==
    [doc EXCEPT !.users[FirstMatch(doc, uid)] =
        [@ EXCEPT !.spectator = flag,
                  !.isReady = IF flag THEN "false" ELSE "null",
                  !.vote = Null]]

\* isReady left as it is
resetVotesKeepReady(doc) ==
    [doc EXCEPT !.users = [i \in 1..Len(doc.users) |-> [doc.users[i] EXCEPT !.vote = Null]],
                !.revealed = FALSE]

resetVotes(doc) ==
    [doc EXCEPT !.users = [i \in 1..Len(doc.users) |->
                              [doc.users[i] EXCEPT !.vote = Null, !.isReady = "false"]],
                !.revealed = FALSE]

setRevealed(doc) == [doc EXCEPT !.revealed = TRUE]

setOwner(doc, uid) == [doc EXCEPT !.ownerId = uid]

\* a deleteOne whose filter matches nothing
deleteNone(rid) == rooms

\* deleteOne({_id})
deleteOne(rid) == [rooms EXCEPT ![rid] = NullDoc]

\* ---- messages and fan-out --------------------------------------------------
\* to: the connection; uid: the participant it was addressed to (Null for a
\* direct ws.send); op / by: the handler that sent it and its participant.
Msg(to, uid, type, room, text, op, by) ==
    [to |-> to, uid |-> uid, type |-> type, room |-> room, text |-> text, op |-> op, by |-> by]

isWsOpen(ws) == ws # Null /\ wsOpen[ws]

\* ws.send(...) on the requester's own socket
wsSend(c, type, text, op, by) ==
    IF wsOpen[c] THEN <<Msg(c, Null, type, NullRoom, text, op, by)>> ELSE <<>>

broadcastToUser(socks, userId, type, room, op) ==
    IF isWsOpen(socks[userId]) THEN <<Msg(socks[userId], userId, type, room, "", op, userId)>>
    ELSE <<>>

\* the loop without its try/catch: a send that throws ends the loop
RECURSIVE broadcastLoopStopsOnThrow(_, _, _, _, _, _, _)
broadcastLoopStopsOnThrow(socks, users, room, excludeUserId, op, by, throws) ==
    IF users = <<>> THEN <<>>
    ELSE LET user == Head(users)
             ws == socks[user.id]
         IN  IF excludeUserId # Null /\ user.id = excludeUserId
             THEN broadcastLoopStopsOnThrow(socks, Tail(users), room, excludeUserId, op, by, throws)
             ELSE IF ~isWsOpen(ws)
             THEN broadcastLoopStopsOnThrow(socks, Tail(users), room, excludeUserId, op, by, throws)
             ELSE IF ws \in throws THEN <<>>
             ELSE <<Msg(ws, user.id, "room:updated", room, "", op, by)>>
                  \o broadcastLoopStopsOnThrow(socks, Tail(users), room, excludeUserId, op, by, throws)

\* for (const user of room.users || []): skip the excluded user, look the
\* socket up, send if it is open; throws: the sockets whose send() throws
\* (caught and logged, the loop goes on)
RECURSIVE broadcastLoop(_, _, _, _, _, _, _)
broadcastLoop(socks, users, room, excludeUserId, op, by, throws) ==
    IF users = <<>> THEN <<>>
    ELSE LET user == Head(users)
             ws == socks[user.id]
             rest == broadcastLoop(socks, Tail(users), room, excludeUserId, op, by, throws)
         IN  IF excludeUserId # Null /\ user.id = excludeUserId THEN rest
             ELSE IF isWsOpen(ws) /\ ws \notin throws
             THEN <<Msg(ws, user.id, "room:updated", room, "", op, by)>> \o rest
             ELSE rest

\* broadcast({room, message, excludeUserId}); in the handlers no send throws
\* (ws.send of a string on an OPEN socket reports failures to its callback)
broadcast(socks, doc, room, excludeUserId, op, by) ==
    broadcastLoop(socks, doc.users, room, excludeUserId, op, by, {})

\* ---- tasks -------------------------------------------------------------------
IdleTask ==
    [pc |-> "idle", conn |-> Null, uid |-> Null, rid |-> Null, arg |-> Null,
     flag |-> FALSE, snap |-> NullDoc, affected |-> <<>>, post |-> NullDoc, pre |-> NullDoc,
     again |-> FALSE, roomName |-> "", ownerName |-> "", cards |-> FALSE,
     exclude |-> Null, throws |-> {}]

Idle(t) == tasks[t].pc = "idle"
HasFree == \E t \in Tasks : Idle(t)
FreeSlot == CHOOSE t \in Tasks : Idle(t) /\ \A s \in Tasks : Idle(s) => t <= s

Spawn(rec) == tasks' = [tasks EXCEPT ![FreeSlot] = rec]
Finish(t) == tasks' = [tasks EXCEPT ![t] = IdleTask]

Init ==
    /\ rooms = [r \in RoomIds |-> NullDoc]
    /\ userSockets = [u \in UserIds |-> Null]
    /\ wsOpen = [c \in Conns |-> TRUE]
    /\ currentUserId = [c \in Conns |-> Null]
    /\ currentRoomId = [c \in Conns |-> Null]
    /\ tasks = [t \in Tasks |-> IdleTask]
    /\ nextUid = 1
    /\ nextRid = 1
    /\ ncmds = 0
    /\ deleted = {}
    /\ sent = <<>>

Running(t, pc) == tasks[t].pc = pc
Step(t, rec) == tasks' = [tasks EXCEPT ![t] = rec]

\* ids generateId() will still have to hand out to joins already started
ReservedIds == Cardinality({t \in Tasks : tasks[t].pc \in {"join_find", "join_found"}})
CanGenerateUser == nextUid + ReservedIds <= MaxUsers

\* ws.on('message'): one more command is taken off an open connection
Accept(c) == wsOpen[c] /\ ncmds < MaxCmds /\ ncmds' = ncmds + 1

\* a catch branch that only logs
CaughtSilently(c, op, by) == <<>>

\* catch (error): the generic error reply
Caught(c, op, by) == wsSend(c, "error", "Error procesando el mensaje", op, by)

\* ---- room:create -----------------------------------------------------------
\* message arrives; owner and room are built, insertOne is issued.
\* roomName, ownerName: as sent; cards: the message has a cards array.
\* The documents' name, cards and createdAt are read by no handler and are
\* not carried by the model's documents; the handler's own use of cards is.
RoomCreate(c, roomName, ownerName, cards) ==
    /\ Accept(c) /\ HasFree /\ CanGenerateUser /\ nextRid <= MaxRooms
    /\ Spawn([IdleTask EXCEPT !.pc = "create_insert", !.conn = c,
                              !.uid = nextUid, !.rid = nextRid,
                              !.roomName = roomName, !.ownerName = ownerName,
                              !.cards = cards])
    /\ nextUid' = nextUid + 1
    /\ nextRid' = nextRid + 1
    /\ sent' = <<>>
    /\ UNCHANGED <<rooms, userSockets, wsOpen, currentUserId, currentRoomId, deleted>>

StoreCreateInsert(t) ==
    /\ Running(t, "create_insert")
    /\ rooms' = [rooms EXCEPT ![tasks[t].rid] =
                    roomToRoomDocument(NewRoom(tasks[t].rid, NewUser(tasks[t].uid)))]
    /\ Step(t, [tasks[t] EXCEPT !.pc = "create_inserted"])
    /\ sent' = <<>>
    /\ UNCHANGED <<userSockets, wsOpen, currentUserId, currentRoomId, nextUid, nextRid, ncmds, deleted>>

\* the binding is set and room:created sent; the closing console.log calls
\* cards.join, which throws into the catch branch when cards is undefined
CreateResume(t) ==
    LET c == tasks[t].conn
        owner == NewUser(tasks[t].uid)
        room == NewRoom(tasks[t].rid, owner)
    IN  /\ Running(t, "create_inserted")
        /\ userSockets' = [userSockets EXCEPT ![owner.id] = c]
        /\ currentUserId' = [currentUserId EXCEPT ![c] = owner.id]
        /\ currentRoomId' = [currentRoomId EXCEPT ![c] = room.id]
        /\ sent' = broadcastToUser(userSockets', owner.id, "room:created", room, "room:create")
                   \o (IF tasks[t].cards THEN <<>> ELSE Caught(c, "room:create", owner.id))
        /\ Finish(t)
        /\ UNCHANGED <<rooms, wsOpen, nextUid, nextRid, ncmds, deleted>>

\* ---- room:join -------------------------------------------------------------
RoomJoin(c, roomId) ==
    /\ Accept(c) /\ HasFree /\ CanGenerateUser
    /\ Spawn([IdleTask EXCEPT !.pc = "join_find", !.conn = c, !.rid = roomId])
    /\ sent' = <<>>
    /\ UNCHANGED <<rooms, userSockets, wsOpen, currentUserId, currentRoomId,
                   nextUid, nextRid, deleted>>

StoreJoinFind(t) ==
    /\ Running(t, "join_find")
    /\ Step(t, [tasks[t] EXCEPT !.pc = "join_found", !.snap = findOne(tasks[t].rid)])
    /\ sent' = <<>>
    /\ UNCHANGED <<rooms, userSockets, wsOpen, currentUserId, currentRoomId,
                   nextUid, nextRid, ncmds, deleted>>

\* if (!room) -> room:error; otherwise the user is built and the $push issued
JoinResumeFound(t) ==
    /\ Running(t, "join_found")
    /\ IF ~tasks[t].snap.exists
       THEN /\ sent' = wsSend(tasks[t].conn, "room:error", "Sala no encontrada", "room:join", Null)
            /\ Finish(t)
            /\ UNCHANGED nextUid
       ELSE /\ sent' = <<>>
            /\ Step(t, [tasks[t] EXCEPT !.pc = "join_push", !.uid = nextUid, !.snap = NullDoc])
            /\ nextUid' = nextUid + 1
    /\ UNCHANGED <<rooms, userSockets, wsOpen, currentUserId, currentRoomId, nextRid, ncmds, deleted>>

StoreJoinPush(t) ==
    LET rid == tasks[t].rid
        found == findOne(rid)
        after == pushUser(found, NewUser(tasks[t].uid))
    IN  /\ Running(t, "join_push")
        /\ IF found.exists
           THEN /\ rooms' = [rooms EXCEPT ![rid] = after]
                /\ Step(t, [tasks[t] EXCEPT !.pc = "join_pushed", !.snap = after])
           ELSE /\ rooms' = rooms
                /\ Step(t, [tasks[t] EXCEPT !.pc = "join_pushed", !.snap = NullDoc])
        /\ sent' = <<>>
        /\ UNCHANGED <<userSockets, wsOpen, currentUserId, currentRoomId, nextUid, nextRid, ncmds, deleted>>

\* the excludeUserId the join's room-wide broadcast is called with
JoinExclude(userId) == Null

JoinResumePushed(t) ==
    LET c == tasks[t].conn
        uid == tasks[t].uid
        updatedRoom == tasks[t].snap
    IN  /\ Running(t, "join_pushed")
        /\ IF ~updatedRoom.exists
           THEN /\ sent' = wsSend(c, "room:error", "Error al unirse a la sala", "room:join", Null)
                /\ UNCHANGED <<userSockets, currentUserId, currentRoomId>>
           ELSE /\ userSockets' = [userSockets EXCEPT ![uid] = c]
                /\ currentUserId' = [currentUserId EXCEPT ![c] = uid]
                /\ currentRoomId' = [currentRoomId EXCEPT ![c] = updatedRoom._id]
                /\ sent' = broadcastToUser(userSockets', uid, "room:joined",
                                           roomDocumentToRoom(updatedRoom), "room:join")
                           \o broadcast(userSockets', updatedRoom, roomDocumentToRoom(updatedRoom),
                                        JoinExclude(uid), "room:join", uid)
        /\ Finish(t)
        /\ UNCHANGED <<rooms, wsOpen, nextUid, nextRid, ncmds, deleted>>

\* ---- room:reveal -----------------------------------------------------------
\* the binding check left out
BoundUnchecked(c) == TRUE

\* !(!currentRoomId || !currentUserId)
Bound(c) == currentRoomId[c] # Null /\ currentUserId[c] # Null

NotBound(c, op) ==
    /\ sent' = wsSend(c, "room:error", "No estas en una sala", op, Null)
    /\ UNCHANGED <<rooms, userSockets, wsOpen, currentUserId, currentRoomId, tasks,
                   nextUid, nextRid, deleted>>

RoomReveal(c) ==
    /\ Accept(c)
    /\ IF ~Bound(c) THEN NotBound(c, "room:reveal")
       ELSE /\ HasFree
            /\ Spawn([IdleTask EXCEPT !.pc = "reveal_find", !.conn = c, !.rid = currentRoomId[c]])
            /\ sent' = <<>>
            /\ UNCHANGED <<rooms, userSockets, wsOpen, currentUserId, currentRoomId,
                           nextUid, nextRid, deleted>>

StoreRevealFind(t) ==
    /\ Running(t, "reveal_find")
    /\ Step(t, [tasks[t] EXCEPT !.pc = "reveal_found", !.snap = findOne(tasks[t].rid)])
    /\ sent' = <<>>
    /\ UNCHANGED <<rooms, userSockets, wsOpen, currentUserId, currentRoomId,
                   nextUid, nextRid, ncmds, deleted>>

\* the ownership check left out
NotOwnerUnchecked(room, userId) == FALSE

\* room.ownerId !== currentUserId
NotOwner(room, userId) == room.ownerId # userId

RevealResumeFound(t) ==
    LET c == tasks[t].conn
        room == tasks[t].snap
    IN  /\ Running(t, "reveal_found")
        /\ IF ~room.exists
           THEN /\ sent' = wsSend(c, "room:error", "Sala no encontrada", "room:reveal", currentUserId[c])
                /\ Finish(t)
           ELSE IF NotOwner(room, currentUserId[c])
           THEN /\ sent' = wsSend(c, "room:error", "Solo el propietario puede revelar los votos",
                                  "room:reveal", currentUserId[c])
                /\ Finish(t)
           ELSE /\ sent' = <<>>
                /\ Step(t, [tasks[t] EXCEPT !.pc = "reveal_update", !.rid = currentRoomId[c],
                                            !.uid = currentUserId[c]])
        /\ UNCHANGED <<rooms, userSockets, wsOpen, currentUserId, currentRoomId,
                       nextUid, nextRid, ncmds, deleted>>

\* updateOne({_id}, {$set: {revealed: true}}); post records what the store then holds
StoreRevealUpdate(t) ==
    LET rid == tasks[t].rid
        found == findOne(rid)
    IN  /\ Running(t, "reveal_update")
        /\ IF found.exists
           THEN /\ rooms' = [rooms EXCEPT ![rid] = setRevealed(found)]
                /\ Step(t, [tasks[t] EXCEPT !.pc = "reveal_updated", !.post = setRevealed(found)])
           ELSE /\ rooms' = rooms
                /\ Step(t, [tasks[t] EXCEPT !.pc = "reveal_updated"])
        /\ sent' = <<>>
        /\ UNCHANGED <<userSockets, wsOpen, currentUserId, currentRoomId, nextUid, nextRid, ncmds, deleted>>

\* the document the reveal's broadcast is built from
RevealSource(t) == tasks[t].snap

RevealResumeUpdated(t) ==
    LET room == RevealSource(t)
    IN  /\ Running(t, "reveal_updated")
        /\ sent' = broadcast(userSockets, room, roomDocumentToRoom(setRevealed(room)),
                             Null, "room:reveal", tasks[t].uid)
        /\ Finish(t)
        /\ UNCHANGED <<rooms, userSockets, wsOpen, currentUserId, currentRoomId,
                       nextUid, nextRid, ncmds, deleted>>

\* ---- user:vote -------------------------------------------------------------
UserVote(c, vote) ==
    /\ Accept(c)
    /\ IF ~Bound(c) THEN NotBound(c, "user:vote")
       ELSE /\ HasFree
            /\ Spawn([IdleTask EXCEPT !.pc = "vote_update", !.conn = c, !.arg = vote,
                                      !.rid = currentRoomId[c], !.uid = currentUserId[c]])
            /\ sent' = <<>>
            /\ UNCHANGED <<rooms, userSockets, wsOpen, currentUserId, currentRoomId,
                           nextUid, nextRid, deleted>>

\* the filter {_id, 'users.id'} of vote and spectate
MatchesUser(doc, uid) == doc.exists /\ uid \in UserIdsOf(doc)

StoreVoteUpdate(t) ==
    LET rid == tasks[t].rid
        found == findOne(rid)
        after == setVote(found, tasks[t].uid, tasks[t].arg)
    IN  /\ Running(t, "vote_update")
        /\ IF MatchesUser(found, tasks[t].uid)
           THEN /\ rooms' = [rooms EXCEPT ![rid] = after]
                /\ Step(t, [tasks[t] EXCEPT !.pc = "vote_updated", !.snap = after])
           ELSE /\ rooms' = rooms
                /\ Step(t, [tasks[t] EXCEPT !.pc = "vote_updated", !.snap = NullDoc])
        /\ sent' = <<>>
        /\ UNCHANGED <<userSockets, wsOpen, currentUserId, currentRoomId, nextUid, nextRid, ncmds, deleted>>

\* shared tail of vote, spectate and reset: error reply or room-wide broadcast
ReplyUpdated(t, op, text) ==
    LET updatedRoom == tasks[t].snap
    IN  /\ sent' = IF ~updatedRoom.exists
                   THEN wsSend(tasks[t].conn, "room:error", text, op, tasks[t].uid)
                   ELSE broadcast(userSockets, updatedRoom, roomDocumentToRoom(updatedRoom),
                                  Null, op, tasks[t].uid)
        /\ Finish(t)
        /\ UNCHANGED <<rooms, userSockets, wsOpen, currentUserId, currentRoomId,
                       nextUid, nextRid, ncmds, deleted>>

VoteResume(t) ==
    /\ Running(t, "vote_updated")
    /\ ReplyUpdated(t, "user:vote", "Error al registrar el voto")

\* ---- user:spectate -----------------------------------------------------------
UserSpectate(c, spectator) ==
    /\ Accept(c)
    /\ IF ~Bound(c) THEN NotBound(c, "user:spectate")
       ELSE /\ HasFree
            /\ Spawn([IdleTask EXCEPT !.pc = "spectate_update", !.conn = c, !.flag = spectator,
                                      !.rid = currentRoomId[c], !.uid = currentUserId[c]])
            /\ sent' = <<>>
            /\ UNCHANGED <<rooms, userSockets, wsOpen, currentUserId, currentRoomId,
                           nextUid, nextRid, deleted>>

\* findOneAndUpdate({_id, 'users.id'}, $set users.$.spectator, isReady, vote);
\* pre records what the store held just before
StoreSpectateUpdate(t) ==
    LET rid == tasks[t].rid
        found == findOne(rid)
        after == setSpectator(found, tasks[t].uid, tasks[t].flag)
    IN  /\ Running(t, "spectate_update")
        /\ IF MatchesUser(found, tasks[t].uid)
           THEN /\ rooms' = [rooms EXCEPT ![rid] = after]
                /\ Step(t, [tasks[t] EXCEPT !.pc = "spectate_updated", !.snap = after,
                                            !.pre = found])
           ELSE /\ rooms' = rooms
                /\ Step(t, [tasks[t] EXCEPT !.pc = "spectate_updated", !.snap = NullDoc])
        /\ sent' = <<>>
        /\ UNCHANGED <<userSockets, wsOpen, currentUserId, currentRoomId, nextUid, nextRid, ncmds, deleted>>

SpectateResume(t) ==
    /\ Running(t, "spectate_updated")
    /\ ReplyUpdated(t, "user:spectate", "Error al actualizar el estado de espectador")

\* ---- room:reset --------------------------------------------------------------
RoomReset(c) ==
    /\ Accept(c)
    /\ IF ~Bound(c) THEN NotBound(c, "room:reset")
       ELSE /\ HasFree
            /\ Spawn([IdleTask EXCEPT !.pc = "reset_find", !.conn = c, !.rid = currentRoomId[c]])
            /\ sent' = <<>>
            /\ UNCHANGED <<rooms, userSockets, wsOpen, currentUserId, currentRoomId,
                           nextUid, nextRid, deleted>>

\* findOne with projection {ownerId: true}: _id and ownerId only
ProjectOwner(doc) ==
    IF doc.exists THEN [NullDoc EXCEPT !.exists = TRUE, !._id = doc._id, !.ownerId = doc.ownerId]
    ELSE NullDoc

StoreResetFind(t) ==
    /\ Running(t, "reset_find")
    /\ Step(t, [tasks[t] EXCEPT !.pc = "reset_found", !.snap = ProjectOwner(findOne(tasks[t].rid))])
    /\ sent' = <<>>
    /\ UNCHANGED <<rooms, userSockets, wsOpen, currentUserId, currentRoomId,
                   nextUid, nextRid, ncmds, deleted>>

ResetResumeFound(t) ==
    LET c == tasks[t].conn
        room == tasks[t].snap
    IN  /\ Running(t, "reset_found")
        /\ IF ~room.exists
           THEN /\ sent' = wsSend(c, "room:error", "Sala no encontrada", "room:reset", currentUserId[c])
                /\ Finish(t)
           ELSE IF NotOwner(room, currentUserId[c])
           THEN /\ sent' = wsSend(c, "room:error", "Solo el propietario puede reiniciar la votacion",
                                  "room:reset", currentUserId[c])
                /\ Finish(t)
           ELSE /\ sent' = <<>>
                /\ Step(t, [tasks[t] EXCEPT !.pc = "reset_update", !.rid = currentRoomId[c],
                                            !.uid = currentUserId[c], !.snap = NullDoc])
        /\ UNCHANGED <<rooms, userSockets, wsOpen, currentUserId, currentRoomId,
                       nextUid, nextRid, ncmds, deleted>>

\* findOneAndUpdate({_id}, $set users.$[].vote, users.$[].isReady, revealed);
\* pre records what the store held just before
StoreResetUpdate(t) ==
    LET rid == tasks[t].rid
        found == findOne(rid)
        after == resetVotes(found)
    IN  /\ Running(t, "reset_update")
        /\ IF found.exists
           THEN /\ rooms' = [rooms EXCEPT ![rid] = after]
                /\ Step(t, [tasks[t] EXCEPT !.pc = "reset_updated", !.snap = after, !.pre = found])
           ELSE /\ rooms' = rooms
                /\ Step(t, [tasks[t] EXCEPT !.pc = "reset_updated", !.snap = NullDoc])
        /\ sent' = <<>>
        /\ UNCHANGED <<userSockets, wsOpen, currentUserId, currentRoomId, nextUid, nextRid, ncmds, deleted>>

ResetResume(t) ==
    /\ Running(t, "reset_updated")
    /\ ReplyUpdated(t, "room:reset", "Error al reiniciar la votacion")

\* ---- unknown type, unparsable message -------------------------------------------
\* default: branch of the switch
UnknownType(c) ==
    /\ Accept(c)
    /\ sent' = wsSend(c, "error", "Tipo de mensaje desconocido", "unknown", currentUserId[c])
    /\ UNCHANGED <<rooms, userSockets, wsOpen, currentUserId, currentRoomId, tasks,
                   nextUid, nextRid, deleted>>

\* JSON.parse throws, or the parsed value has no properties: catch branch
Unparsable(c) ==
    /\ Accept(c)
    /\ sent' = Caught(c, "unparsable", currentUserId[c])
    /\ UNCHANGED <<rooms, userSockets, wsOpen, currentUserId, currentRoomId, tasks,
                   nextUid, nextRid, deleted>>

\* ---- disconnect: ws.on('close') and cleanupUser ------------------------------
\* the registry entry is left in place
cleanupUserKeepsEntry(uid) ==
    /\ HasFree
    /\ UNCHANGED userSockets
    /\ Spawn([IdleTask EXCEPT !.pc = "cleanup_find", !.uid = uid])

\* the synchronous head of cleanupUser: the registry entry goes, find is issued
cleanupUser(uid) ==
    /\ HasFree
    /\ userSockets' = [userSockets EXCEPT ![uid] = Null]
    /\ Spawn([IdleTask EXCEPT !.pc = "cleanup_find", !.uid = uid])

Close(c) ==
    /\ wsOpen[c]
    /\ wsOpen' = [wsOpen EXCEPT ![c] = FALSE]
    /\ IF currentUserId[c] # Null
       THEN cleanupUser(currentUserId[c])
       ELSE UNCHANGED <<userSockets, tasks>>
    /\ sent' = <<>>
    /\ UNCHANGED <<rooms, currentUserId, currentRoomId, nextUid, nextRid, ncmds, deleted>>

StoreCleanupFind(t) ==
    /\ Running(t, "cleanup_find")
    /\ Step(t, [tasks[t] EXCEPT !.pc = "cleanup_found",
                                !.affected = findByUser(tasks[t].uid, MaxRooms)])
    /\ sent' = <<>>
    /\ UNCHANGED <<rooms, userSockets, wsOpen, currentUserId, currentRoomId,
                   nextUid, nextRid, ncmds, deleted>>

\* for (const room of affectedRooms): the task as it goes on to the next room
NextAffected(t) ==
    IF Len(tasks[t].affected) > 1
    THEN [tasks[t] EXCEPT !.pc = "cleanup_pull", !.affected = Tail(@),
                          !.snap = NullDoc, !.arg = Null]
    ELSE IdleTask

CleanupResumeFound(t) ==
    /\ Running(t, "cleanup_found")
    /\ Step(t, IF tasks[t].affected = <<>> THEN IdleTask
               ELSE [tasks[t] EXCEPT !.pc = "cleanup_pull"])
    /\ sent' = <<>>
    /\ UNCHANGED <<rooms, userSockets, wsOpen, currentUserId, currentRoomId,
                   nextUid, nextRid, ncmds, deleted>>

StoreCleanupPull(t) ==
    LET rid == Head(tasks[t].affected)._id
        found == findOne(rid)
        after == pullUser(found, tasks[t].uid)
    IN  /\ Running(t, "cleanup_pull")
        /\ IF found.exists
           THEN /\ rooms' = [rooms EXCEPT ![rid] = after]
                /\ Step(t, [tasks[t] EXCEPT !.pc = "cleanup_pulled", !.snap = after])
           ELSE /\ rooms' = rooms
                /\ Step(t, [tasks[t] EXCEPT !.pc = "cleanup_pulled", !.snap = NullDoc])
        /\ sent' = <<>>
        /\ UNCHANGED <<userSockets, wsOpen, currentUserId, currentRoomId, nextUid, nextRid, ncmds, deleted>>

\* if (room.ownerId === uid): room is the document find returned
WasOwner(room, uid) == room.ownerId = uid

\* the last remaining participant instead of the first
NewOwnerLast(updated) == updated.users[Len(updated.users)]

\* const newOwner = updated.users[0]
NewOwner(updated) == updated.users[1]

CleanupResumePulled(t) ==
    LET room == Head(tasks[t].affected)
        updated == tasks[t].snap
        uid == tasks[t].uid
    IN  /\ Running(t, "cleanup_pulled")
        /\ IF ~updated.exists
           THEN /\ Step(t, NextAffected(t))
                /\ sent' = <<>>
           ELSE IF Len(updated.users) = 0
           THEN /\ Step(t, [tasks[t] EXCEPT !.pc = "cleanup_delete"])
                /\ sent' = <<>>
           ELSE IF WasOwner(room, uid)
           THEN /\ Step(t, [tasks[t] EXCEPT !.pc = "cleanup_owner"])
                /\ sent' = <<>>
           ELSE /\ Step(t, NextAffected(t))
                /\ sent' = broadcast(userSockets, updated, roomDocumentToRoom(updated),
                                     Null, "leave", uid)
        /\ UNCHANGED <<rooms, userSockets, wsOpen, currentUserId, currentRoomId,
                       nextUid, nextRid, ncmds, deleted>>

StoreCleanupDelete(t) ==
    LET rid == tasks[t].snap._id
    IN  /\ Running(t, "cleanup_delete")
        /\ rooms' = deleteOne(rid)
        /\ deleted' = IF rooms[rid].exists /\ ~rooms'[rid].exists THEN deleted \cup {rid} ELSE deleted
        /\ Step(t, [tasks[t] EXCEPT !.pc = "cleanup_deleted"])
        /\ sent' = <<>>
        /\ UNCHANGED <<userSockets, wsOpen, currentUserId, currentRoomId, nextUid, nextRid, ncmds>>

CleanupResumeDeleted(t) ==
    /\ Running(t, "cleanup_deleted")
    /\ Step(t, NextAffected(t))
    /\ sent' = <<>>
    /\ UNCHANGED <<rooms, userSockets, wsOpen, currentUserId, currentRoomId,
                   nextUid, nextRid, ncmds, deleted>>

\* updateOne({_id}, {$set: {ownerId: newOwner.id}}); arg is modifiedCount
StoreCleanupOwner(t) ==
    LET rid == tasks[t].snap._id
        found == findOne(rid)
        newOwner == NewOwner(tasks[t].snap)
        modified == found.exists /\ found.ownerId # newOwner.id
    IN  /\ Running(t, "cleanup_owner")
        /\ rooms' = IF modified THEN [rooms EXCEPT ![rid] = setOwner(found, newOwner.id)]
                    ELSE rooms
        /\ Step(t, [tasks[t] EXCEPT !.pc = "cleanup_owned", !.arg = IF modified THEN 1 ELSE 0])
        /\ sent' = <<>>
        /\ UNCHANGED <<userSockets, wsOpen, currentUserId, currentRoomId, nextUid, nextRid, ncmds, deleted>>

CleanupResumeOwner(t) ==
    LET updated == tasks[t].snap
        ownerId == IF tasks[t].arg = 1 THEN NewOwner(updated).id ELSE updated.ownerId
    IN  /\ Running(t, "cleanup_owned")
        /\ sent' = broadcast(userSockets, updated,
                             roomDocumentToRoom(setOwner(updated, ownerId)),
                             Null, "leave", tasks[t].uid)
        /\ Step(t, NextAffected(t))
        /\ UNCHANGED <<rooms, userSockets, wsOpen, currentUserId, currentRoomId,
                       nextUid, nextRid, ncmds, deleted>>

\* ---- the program -----------------------------------------------------------------
\* the store applies a pending request, or a handler resumes with its result
Progress ==
    \/ \E t \in Tasks : StoreCreateInsert(t)
    \/ \E t \in Tasks : StoreJoinFind(t)
    \/ \E t \in Tasks : StoreJoinPush(t)
    \/ \E t \in Tasks : StoreRevealFind(t)
    \/ \E t \in Tasks : StoreRevealUpdate(t)
    \/ \E t \in Tasks : StoreVoteUpdate(t)
    \/ \E t \in Tasks : StoreSpectateUpdate(t)
    \/ \E t \in Tasks : StoreResetFind(t)
    \/ \E t \in Tasks : StoreResetUpdate(t)
    \/ \E t \in Tasks : StoreCleanupFind(t)
    \/ \E t \in Tasks : StoreCleanupPull(t)
    \/ \E t \in Tasks : StoreCleanupDelete(t)
    \/ \E t \in Tasks : StoreCleanupOwner(t)
    \/ \E t \in Tasks : CreateResume(t)
    \/ \E t \in Tasks : JoinResumeFound(t)
    \/ \E t \in Tasks : JoinResumePushed(t)
    \/ \E t \in Tasks : RevealResumeFound(t)
    \/ \E t \in Tasks : RevealResumeUpdated(t)
    \/ \E t \in Tasks : VoteResume(t)
    \/ \E t \in Tasks : SpectateResume(t)
    \/ \E t \in Tasks : ResetResumeFound(t)
    \/ \E t \in Tasks : ResetResume(t)
    \/ \E t \in Tasks : CleanupResumeFound(t)
    \/ \E t \in Tasks : CleanupResumePulled(t)
    \/ \E t \in Tasks : CleanupResumeDeleted(t)
    \/ \E t \in Tasks : CleanupResumeOwner(t)

\* ws.on('message') of connection c: the synchronous head of one handler
Receive(c) ==
    \/ \E roomName \in Names, ownerName \in Names, cards \in BOOLEAN :
          RoomCreate(c, roomName, ownerName, cards)
    \/ \E roomId \in RoomIds : RoomJoin(c, roomId)
    \/ RoomReveal(c)
    \/ \E vote \in Votes : UserVote(c, vote)
    \/ \E spectator \in BOOLEAN : UserSpectate(c, spectator)
    \/ RoomReset(c)
    \/ UnknownType(c)
    \/ Unparsable(c)

Next ==
    \/ \E c \in Conns, roomName \in Names, ownerName \in Names, cards \in BOOLEAN :
          RoomCreate(c, roomName, ownerName, cards)
    \/ \E c \in Conns, roomId \in RoomIds : RoomJoin(c, roomId)
    \/ \E c \in Conns : RoomReveal(c)
    \/ \E c \in Conns, vote \in Votes : UserVote(c, vote)
    \/ \E c \in Conns, spectator \in BOOLEAN : UserSpectate(c, spectator)
    \/ \E c \in Conns : RoomReset(c)
    \/ \E c \in Conns : UnknownType(c)
    \/ \E c \in Conns : Unparsable(c)
    \/ \E c \in Conns : Close(c)
    \/ Progress

Spec == Init /\ [][Next]_vars

\* ---- cleanupUser applied once more ---------------------------------------------
\* cleanupUser({uid}) called again for a participant whose first leave is over:
\* no registry entry, no handler or cleanup of that participant in flight
LeaveAgain(uid) ==
    /\ uid < nextUid
    /\ userSockets[uid] = Null
    /\ \A t \in Tasks : tasks[t].uid # uid
    /\ HasFree
    /\ userSockets' = [userSockets EXCEPT ![uid] = Null]
    /\ Spawn([IdleTask EXCEPT !.pc = "cleanup_find", !.uid = uid, !.again = TRUE])
    /\ sent' = <<>>
    /\ UNCHANGED <<rooms, wsOpen, currentUserId, currentRoomId, nextUid, nextRid, ncmds, deleted>>

NextLeaveTwice == Next \/ \E uid \in UserIds : LeaveAgain(uid)

SpecLeaveTwice == Init /\ [][NextLeaveTwice]_vars

\* ---- one handler at a time ---------------------------------------------------------
InFlight == {t \in Tasks : ~Idle(t)}

Quiet == InFlight = {}

\* a command or a close is taken only when nothing is in flight
NextAlone ==
    \/ \E c \in Conns, roomName \in Names, ownerName \in Names, cards \in BOOLEAN :
          Quiet /\ RoomCreate(c, roomName, ownerName, cards)
    \/ \E c \in Conns, roomId \in RoomIds : Quiet /\ RoomJoin(c, roomId)
    \/ \E c \in Conns : Quiet /\ RoomReveal(c)
    \/ \E c \in Conns, vote \in Votes : Quiet /\ UserVote(c, vote)
    \/ \E c \in Conns, spectator \in BOOLEAN : Quiet /\ UserSpectate(c, spectator)
    \/ \E c \in Conns : Quiet /\ RoomReset(c)
    \/ \E c \in Conns : Quiet /\ UnknownType(c)
    \/ \E c \in Conns : Quiet /\ Unparsable(c)
    \/ \E c \in Conns : Quiet /\ Close(c)
    \/ Progress

SpecAlone == Init /\ [][NextAlone]_vars

\* ---- every request answered, every handler resumed ------------------------------------
\* the next step of handler or leave t: its pending store request is applied,
\* or it resumes with the result
TaskStep(t) ==
    \/ StoreCreateInsert(t) \/ CreateResume(t)
    \/ StoreJoinFind(t) \/ JoinResumeFound(t) \/ StoreJoinPush(t) \/ JoinResumePushed(t)
    \/ StoreRevealFind(t) \/ RevealResumeFound(t) \/ StoreRevealUpdate(t) \/ RevealResumeUpdated(t)
    \/ StoreVoteUpdate(t) \/ VoteResume(t)
    \/ StoreSpectateUpdate(t) \/ SpectateResume(t)
    \/ StoreResetFind(t) \/ ResetResumeFound(t) \/ StoreResetUpdate(t) \/ ResetResume(t)
    \/ StoreCleanupFind(t) \/ CleanupResumeFound(t) \/ StoreCleanupPull(t) \/ CleanupResumePulled(t)
    \/ StoreCleanupDelete(t) \/ CleanupResumeDeleted(t)
    \/ StoreCleanupOwner(t) \/ CleanupResumeOwner(t)

\* the store answers every request and the event loop runs every handler
\* whose await has settled
Answered == \A t \in Tasks : WF_vars(TaskStep(t))

Few == ncmds < MaxLiveCmds

NextLive ==
    \/ \E c \in Conns, roomName \in Names, ownerName \in Names, cards \in BOOLEAN :
          Few /\ RoomCreate(c, roomName, ownerName, cards)
    \/ \E c \in Conns, roomId \in RoomIds : Few /\ RoomJoin(c, roomId)
    \/ \E c \in Conns : Few /\ RoomReveal(c)
    \/ \E c \in Conns, vote \in Votes : Few /\ UserVote(c, vote)
    \/ \E c \in Conns, spectator \in BOOLEAN : Few /\ UserSpectate(c, spectator)
    \/ \E c \in Conns : Few /\ RoomReset(c)
    \/ \E c \in Conns : Few /\ UnknownType(c)
    \/ \E c \in Conns : Few /\ Unparsable(c)
    \/ \E c \in Conns : Close(c)
    \/ Progress

SpecLive == Init /\ [][NextLive]_vars /\ Answered

\* ---- broadcast on its own -----------------------------------------------------------
\* the users of a room snapshot: the participants of S, by ascending id (the
\* loop looks at ids for equality only, and the registry below is arbitrary)
RECURSIVE UsersOf(_)
UsersOf(S) ==
    IF S = {} THEN <<>>
    ELSE LET least == CHOOSE u \in S : \A v \in S : u <= v
         IN  <<NewUser(least)>> \o UsersOf(S \ {least})

\* any registry, any sockets open or closed, and one pending call of
\* broadcast: any snapshot, any excludeUserId, any set of open sockets
\* whose send throws
InitBroadcast ==
    /\ rooms = [r \in RoomIds |-> NullDoc]
    /\ userSockets \in [UserIds -> Conns \cup {Null}]
    /\ wsOpen \in [Conns -> BOOLEAN]
    /\ currentUserId = [c \in Conns |-> Null]
    /\ currentRoomId = [c \in Conns |-> Null]
    /\ \E S \in SUBSET UserIds, excludeUserId \in UserIds \cup {Null}, throws \in SUBSET Conns :
          /\ \A c \in throws : wsOpen[c]
          /\ tasks = [t \in Tasks |->
                        IF t = 1
                        THEN [IdleTask EXCEPT !.pc = "broadcast",
                                              !.snap = [NullDoc EXCEPT !.exists = TRUE, !._id = 1,
                                                                       !.users = UsersOf(S)],
                                              !.exclude = excludeUserId,
                                              !.throws = throws]
                        ELSE IdleTask]
    /\ nextUid = 1
    /\ nextRid = 1
    /\ ncmds = 0
    /\ deleted = {}
    /\ sent = <<>>

\* the call runs: the loop is synchronous, one step
BroadcastCall(t) ==
    /\ Running(t, "broadcast")
    /\ sent' = broadcastLoop(userSockets, tasks[t].snap.users, roomDocumentToRoom(tasks[t].snap),
                              tasks[t].exclude, "broadcast", Null, tasks[t].throws)
    /\ Step(t, [tasks[t] EXCEPT !.pc = "broadcast_done"])
    /\ UNCHANGED <<rooms, userSockets, wsOpen, currentUserId, currentRoomId,
                   nextUid, nextRid, ncmds, deleted>>

NextBroadcast == \E t \in Tasks : BroadcastCall(t)

SpecBroadcast == InitBroadcast /\ [][NextBroadcast]_vars

TypeOK ==
    /\ \A r \in RoomIds : rooms[r].exists => rooms[r]._id = r
    /\ \A u \in UserIds : userSockets[u] \in Conns \cup {Null}
    /\ nextUid \in 1..(MaxUsers + 1)
    /\ nextRid \in 1..(MaxRooms + 1)

\* ==== claims ======================================================================
Existing == {r \in RoomIds : rooms[r].exists}

\* C1: every room document in the store has a non-empty users sequence, also
\* while a leave is in flight (stated as the claim has it; the $pull of the last
\* participant and the deleteOne are two store requests).
C1_UsersNeverEmpty == \A r \in Existing : Len(rooms[r].users) > 0

\* C2: for every room document in the store, ownerId is the id of one of its users
\* (stated as the claim has it; the $pull of the owner and the $set of ownerId
\* are two store requests, and the $set may name a participant already pulled).
C2_OwnerIsMember == \A r \in Existing : rooms[r].ownerId \in UserIdsOf(rooms[r])

OwnerOnlyTexts == {"Solo el propietario puede revelar los votos",
                   "Solo el propietario puede reiniciar la votacion"}

\* C3: when a room:reveal or room:reset handler resumes with the room it read
\* and the connection's participant is not that room's owner, the handler ends
\* in that step: the store is unchanged, the requester (if still open) gets one
\* room:error and nothing else is sent to anyone.
C3_NonOwnerRejected ==
    [][\A t \in Tasks :
        LET c == tasks[t].conn IN
        ( /\ tasks[t].pc \in {"reveal_found", "reset_found"}
          /\ tasks[t].snap.exists
          /\ tasks[t].snap.ownerId # currentUserId[c]
          /\ tasks'[t] # tasks[t] )
        => /\ rooms' = rooms
           /\ tasks'[t] = IdleTask
           /\ Len(sent') = (IF wsOpen[c] THEN 1 ELSE 0)
           /\ \A i \in 1..Len(sent') :
                 /\ sent'[i].to = c
                 /\ sent'[i].type = "room:error"
                 /\ sent'[i].text \in OwnerOnlyTexts]_vars

\* C3 witness: a non-owner in a two-member room has just been refused
C3_Witness ==
    /\ Len(sent) = 1
    /\ sent[1].type = "room:error"
    /\ sent[1].text \in OwnerOnlyTexts
    /\ \E r \in Existing :
          /\ sent[1].by \in UserIdsOf(rooms[r])
          /\ sent[1].by # rooms[r].ownerId

\* C4: the room:updated of a successful reveal is built from the document as
\* stored right after the $set of revealed (tasks[t].post): its room, and its
\* recipients, are those of that document (stated as the claim has it; the code
\* builds it from the document read before the ownership check).
C4_RevealBroadcastsStored ==
    [][\A t \in Tasks :
        ( /\ tasks[t].pc = "reveal_updated"
          /\ tasks[t].post.exists
          /\ tasks'[t] # tasks[t] )
        => sent' = broadcast(userSockets, tasks[t].post, roomDocumentToRoom(tasks[t].post),
                             Null, "room:reveal", tasks[t].uid)]_vars

\* C5: on a successful room:join the joiner is addressed exactly one message,
\* room:joined with the room that includes the joiner, and no room:updated;
\* every other member with an open socket is addressed room:updated with the
\* same users (stated as the claim has it; the code passes no excludeUserId).
C5_JoinerGetsOnlyJoined ==
    \A i \in 1..Len(sent) :
        sent[i].type = "room:joined" =>
            /\ sent[i].uid \in {sent[i].room.users[k].id : k \in 1..Len(sent[i].room.users)}
            /\ \A j \in 1..Len(sent) : sent[j].uid = sent[i].uid => j = i
            /\ \A k \in 1..Len(sent[i].room.users) :
                  LET u == sent[i].room.users[k].id IN
                  (u # sent[i].uid /\ isWsOpen(userSockets[u])) =>
                      \E j \in 1..Len(sent) :
                          /\ sent[j].uid = u
                          /\ sent[j].type = "room:updated"
                          /\ sent[j].room.users = sent[i].room.users

IdSeq(users) == [i \in 1..Len(users) |-> users[i].id]
Pos(ids, id) == CHOOSE i \in 1..Len(ids) : ids[i] = id
InSeq(ids, id) == \E i \in 1..Len(ids) : ids[i] = id

\* C6: in every step, for every room in the store afterwards: no participant
\* id occurs twice in users, the members that were there before keep their
\* relative order, and every member that was not there before (a join) comes
\* after all of them.
C6_JoinOrderUniqueIds ==
    [][\A r \in RoomIds :
        rooms'[r].exists =>
            LET old == IF rooms[r].exists THEN IdSeq(rooms[r].users) ELSE <<>>
                new == IdSeq(rooms'[r].users)
            IN  \A i, j \in 1..Len(new) :
                    i < j =>
                        /\ new[i] # new[j]
                        /\ InSeq(old, new[j]) =>
                              /\ InSeq(old, new[i])
                              /\ Pos(old, new[i]) < Pos(old, new[j])]_vars

\* C6 witness: two joins ran concurrently and their pushes were applied in the
\* opposite order of their ids
C6_Witness ==
    \E r \in Existing :
        /\ Len(rooms[r].users) = 3
        /\ rooms[r].users[2].id > rooms[r].users[3].id

Cleared(doc) ==
    /\ doc.exists
    /\ ~doc.revealed
    /\ \A i \in 1..Len(doc.users) : doc.users[i].vote = Null /\ doc.users[i].isReady = "false"

\* C7: the step in which the store applies the owner's reset to an existing
\* room leaves, in that one step, the stored room with revealed = FALSE and
\* every participant with vote unset and isReady false, whoever had voted;
\* members, their order and the owner are as before.
C7_ResetClearsEveryone ==
    [][\A t \in Tasks :
        ( /\ tasks[t].pc = "reset_update"
          /\ tasks'[t].pc = "reset_updated"
          /\ rooms[tasks[t].rid].exists )
        => LET before == rooms[tasks[t].rid]
               after == rooms'[tasks[t].rid]
           IN  /\ Cleared(after)
               /\ IdSeq(after.users) = IdSeq(before.users)
               /\ after.ownerId = before.ownerId
               /\ tasks'[t].snap = after]_vars

\* C7 witness: a reset has just been applied to a revealed room in which a
\* participant had voted, and the stored room is cleared
C7_Witness ==
    \E t \in Tasks :
        /\ tasks[t].pc = "reset_updated"
        /\ tasks[t].pre.exists
        /\ tasks[t].pre.revealed
        /\ \E i \in 1..Len(tasks[t].pre.users) : tasks[t].pre.users[i].vote # Null
        /\ rooms[tasks[t].rid] = tasks[t].snap
        /\ Cleared(tasks[t].snap)

InNoRoom(uid) == \A r \in Existing : uid \notin UserIdsOf(rooms[r])
\* C8: a leave of a participant who is in no room and has no registry entry
\* is a no-op from its first step to its last: the call itself, the find and
\* the (empty) loop change no room document, no registry entry and no binding,
\* and send nothing; the find returns no room and the cleanup then ends.
C8_SecondLeaveIsNoop ==
    [][\A t \in Tasks :
        LET starts == tasks[t].pc = "idle" /\ tasks'[t].pc = "cleanup_find"
            uid == IF starts THEN tasks'[t].uid ELSE tasks[t].uid
        IN  ( /\ tasks'[t] # tasks[t]
              /\ \/ starts
                 \/ tasks[t].pc = "cleanup_find"
                 \/ tasks[t].pc = "cleanup_found" /\ tasks[t].affected = <<>>
              /\ InNoRoom(uid)
              /\ userSockets[uid] = Null )
            => /\ rooms' = rooms
               /\ userSockets' = userSockets
               /\ currentUserId' = currentUserId
               /\ currentRoomId' = currentRoomId
               /\ sent' = <<>>
               /\ tasks'[t].pc \in {"cleanup_find", "cleanup_found", "idle"}
               /\ tasks'[t].affected = <<>>]_vars

\* C8 witness: the second leave of a participant has read the store and found
\* no room, while a room the participant had been in still exists
C8_Witness ==
    \E t \in Tasks :
        /\ tasks[t].again
        /\ tasks[t].pc = "cleanup_found"
        /\ tasks[t].affected = <<>>
        /\ Existing # {}
        /\ \E c \in Conns : ~wsOpen[c] /\ currentUserId[c] = tasks[t].uid

\* C9 (one handler at a time): when a cleanup finishes with a room whose owner,
\* as found, was the leaving participant and in which others remain, the stored
\* ownerId is the id of the first remaining user, the leaver is not in users,
\* and the step sends room:updated with the room as stored to every remaining
\* member with an open socket, and nothing else.
C9_OwnerLeavesFirstRemainingOwns ==
    [][\A t \in Tasks :
        ( /\ tasks[t].pc \in {"cleanup_pulled", "cleanup_deleted", "cleanup_owned"}
          /\ tasks'[t].pc \in {"idle", "cleanup_pull"}
          /\ tasks'[t] # tasks[t]
          /\ Head(tasks[t].affected).ownerId = tasks[t].uid
          /\ Len(Head(tasks[t].affected).users) >= 2 )
        => LET stored == rooms'[Head(tasks[t].affected)._id]
           IN  /\ stored.exists
               /\ tasks[t].uid \notin UserIdsOf(stored)
               /\ stored.ownerId = stored.users[1].id
               /\ sent' = broadcast(userSockets, stored, roomDocumentToRoom(stored),
                                    Null, "leave", tasks[t].uid)
               /\ \A k \in 1..Len(stored.users) :
                     isWsOpen(userSockets[stored.users[k].id]) =>
                        \E i \in 1..Len(sent') : sent'[i].uid = stored.users[k].id]_vars

\* C9 witness (scenario D): the creator of room 1 has left; the one remaining
\* member has just been sent room:updated naming it as owner, with users
\* holding only that member
C9_Witness ==
    /\ Len(sent) = 1
    /\ sent[1].op = "leave"
    /\ sent[1].type = "room:updated"
    /\ sent[1].by = 1
    /\ sent[1].room.ownerId = sent[1].uid
    /\ IdSeq(sent[1].room.users) = <<sent[1].uid>>
    /\ rooms[sent[1].room.id].ownerId = sent[1].uid

\* C10: when the $pull of a leave leaves users empty, the leave goes on to
\* deleteOne and sends nothing; the deleteOne removes the document; a room id
\* once deleted has no document ever after; a join whose findOne runs after the
\* deletion finds nothing, and a join that found nothing ends with room:error
\* to the requester alone, no document created and no participant bound.
C10_SoleLeaveDeletesJoinRejected ==
    [][/\ \A r \in deleted' : ~rooms'[r].exists
       /\ deleted \subseteq deleted'
       /\ \A t \in Tasks :
            LET c == tasks[t].conn
                moved == tasks'[t] # tasks[t]
            IN  /\ ( /\ moved /\ tasks[t].pc = "cleanup_pulled"
                     /\ tasks[t].snap.exists /\ Len(tasks[t].snap.users) = 0 )
                    => tasks'[t].pc = "cleanup_delete" /\ sent' = <<>> /\ rooms' = rooms
                /\ (moved /\ tasks[t].pc = "cleanup_delete")
                    => /\ ~rooms'[tasks[t].snap._id].exists
                       /\ tasks[t].snap._id \in deleted'
                       /\ sent' = <<>>
                /\ (moved /\ tasks[t].pc = "cleanup_deleted") => sent' = <<>> /\ rooms' = rooms
                /\ (moved /\ tasks[t].pc = "join_find" /\ tasks[t].rid \in deleted)
                    => ~tasks'[t].snap.exists
                /\ (moved /\ tasks[t].pc = "join_found" /\ ~tasks[t].snap.exists)
                    => /\ rooms' = rooms
                       /\ userSockets' = userSockets
                       /\ currentUserId' = currentUserId
                       /\ currentRoomId' = currentRoomId
                       /\ nextUid' = nextUid
                       /\ tasks'[t] = IdleTask
                       /\ Len(sent') = (IF wsOpen[c] THEN 1 ELSE 0)
                       /\ \A i \in 1..Len(sent') :
                             sent'[i].to = c /\ sent'[i].type = "room:error"]_vars

\* C10 witness (scenario E): the room was deleted and a join for it has just
\* been answered "Sala no encontrada"
C10_Witness ==
    /\ deleted = RoomIds
    /\ Len(sent) = 1
    /\ sent[1].op = "room:join"
    /\ sent[1].type = "room:error"
    /\ sent[1].text = "Sala no encontrada"

\* the step in which the store applies the update of handler t (vote, spectate)
\* to a stored room that has the handler's participant among its users
Applies(t, pc, pcDone) ==
    /\ tasks[t].pc = pc
    /\ tasks'[t].pc = pcDone
    /\ rooms[tasks[t].rid].exists
    /\ tasks[t].uid \in UserIdsOf(rooms[tasks[t].rid])

\* the stored element of participant uid
Member(doc, uid) == doc.users[CHOOSE i \in 1..Len(doc.users) : doc.users[i].id = uid]

\* after differs from before at most in the element of participant uid
OnlyMemberChanged(before, after, uid) ==
    /\ after.exists
    /\ after._id = before._id
    /\ after.ownerId = before.ownerId
    /\ after.revealed = before.revealed
    /\ Len(after.users) = Len(before.users)
    /\ \A i \in 1..Len(before.users) :
          /\ after.users[i].id = before.users[i].id
          /\ before.users[i].id # uid => after.users[i] = before.users[i]

\* C11: when the store is handed the vote of a participant whose stored
\* spectator flag is true, the vote is refused: no room document changes (that
\* participant's vote and isReady stay as they are) and the handler resumes on
\* its error path, so that no room:updated follows (stated as the claim has
\* it; the vote handler never looks at the spectator flag).
C11_SpectatorVoteRejected ==
    [][\A t \in Tasks :
        ( /\ Applies(t, "vote_update", "vote_updated")
          /\ Member(rooms[tasks[t].rid], tasks[t].uid).spectator )
        => /\ rooms' = rooms
           /\ ~tasks'[t].snap.exists]_vars

\* C12: in every room document in the store, the participant whose id is
\* ownerId has spectator = FALSE (stated as the claim has it; the spectate
\* handler has no ownership check).
C12_OwnerNeverSpectator ==
    \A r \in Existing :
        \A i \in 1..Len(rooms[r].users) :
            rooms[r].users[i].id = rooms[r].ownerId => ~rooms[r].users[i].spectator

\* C13: the one step in which the store applies a user:spectate with
\* spectator = true leaves the requester's element with spectator true, vote
\* unset and isReady false, whatever it held; every other participant, the
\* order, ownerId and revealed are as before, and the handler is handed
\* exactly the document stored.
C13_EnterSpectatorClears ==
    [][\A t \in Tasks :
        (Applies(t, "spectate_update", "spectate_updated") /\ tasks[t].flag)
        => LET before == rooms[tasks[t].rid]
               after == rooms'[tasks[t].rid]
               mine == Member(after, tasks[t].uid)
           IN  /\ OnlyMemberChanged(before, after, tasks[t].uid)
               /\ mine.spectator
               /\ mine.vote = Null
               /\ mine.isReady = "false"
               /\ tasks'[t].snap = after
               /\ \A r \in RoomIds : r # tasks[t].rid => rooms'[r] = rooms[r]]_vars

\* C13 witness: in a room of two, a participant who had voted has just been
\* made a spectator, and the stored element has no vote
C13_Witness ==
    \E t \in Tasks :
        /\ tasks[t].pc = "spectate_updated"
        /\ tasks[t].flag
        /\ tasks[t].pre.exists
        /\ Len(tasks[t].pre.users) >= 2
        /\ Member(tasks[t].pre, tasks[t].uid).vote # Null
        /\ Member(tasks[t].pre, tasks[t].uid).isReady = "true"
        /\ rooms[tasks[t].rid] = tasks[t].snap
        /\ Member(tasks[t].snap, tasks[t].uid).spectator
        /\ Member(tasks[t].snap, tasks[t].uid).vote = Null

\* C14: the step in which the store applies a user:spectate with
\* spectator = false changes the requester's spectator flag and nothing else:
\* the requester's vote and isReady, every other participant, ownerId and
\* revealed are as before (stated as the claim has it; the $set also names
\* isReady and vote, with the value undefined).
C14_LeaveSpectatorFlipsFlagOnly ==
    [][\A t \in Tasks :
        (Applies(t, "spectate_update", "spectate_updated") /\ ~tasks[t].flag)
        => LET before == rooms[tasks[t].rid]
               after == rooms'[tasks[t].rid]
           IN  /\ OnlyMemberChanged(before, after, tasks[t].uid)
               /\ Member(after, tasks[t].uid) =
                      [Member(before, tasks[t].uid) EXCEPT !.spectator = FALSE]]_vars

\* handler t takes a step
Moves(t) == tasks'[t] # tasks[t]

\* C15: a room:create whose roomName or ownerName is empty inserts no room
\* document and binds nothing, at its store step and when it resumes, and it
\* ends with an error reply to the requester (stated as the claim has it; the
\* create handler validates nothing).
C15_EmptyNameCreateFails ==
    [][\A t \in Tasks :
        ( /\ Moves(t)
          /\ tasks[t].pc \in {"create_insert", "create_inserted"}
          /\ (tasks[t].roomName = "" \/ tasks[t].ownerName = "") )
        => /\ rooms' = rooms
           /\ userSockets' = userSockets
           /\ currentUserId' = currentUserId
           /\ currentRoomId' = currentRoomId
           /\ tasks[t].pc = "create_inserted" =>
                 \A i \in 1..Len(sent') : sent'[i].type \in {"error", "room:error"}]_vars

\* C16: the store step of a room:create adds one document under a room id
\* that had none: users holds the owner alone (vote unset, isReady false,
\* spectator false), ownerId is the owner's id, revealed is false; no other
\* document changes and the owner id is in no other room.  When the handler
\* resumes, the connection is bound to that owner and room, the registry maps
\* the owner to the connection, the store is untouched, every message of the
\* step goes to the requester, and (socket still open) exactly one of them is
\* room:created, carrying that room and owner.
C16_CreateInsertsBindsReplies ==
    [][\A t \in Tasks :
        LET c == tasks[t].conn
            uid == tasks[t].uid
            rid == tasks[t].rid
            owner == [id |-> uid, isReady |-> "false", vote |-> Null, spectator |-> FALSE]
            created == {i \in 1..Len(sent') : sent'[i].type = "room:created"}
        IN  /\ (Moves(t) /\ tasks[t].pc = "create_insert") =>
                  /\ ~rooms[rid].exists
                  /\ rooms'[rid] = [exists |-> TRUE, _id |-> rid, ownerId |-> uid,
                                    users |-> <<owner>>, revealed |-> FALSE]
                  /\ \A r \in RoomIds : r # rid => rooms'[r] = rooms[r] /\ uid \notin UserIdsOf(rooms[r])
                  /\ sent' = <<>>
            /\ (Moves(t) /\ tasks[t].pc = "create_inserted") =>
                  /\ rooms' = rooms
                  /\ currentUserId' = [currentUserId EXCEPT ![c] = uid]
                  /\ currentRoomId' = [currentRoomId EXCEPT ![c] = rid]
                  /\ userSockets' = [userSockets EXCEPT ![uid] = c]
                  /\ \A i \in 1..Len(sent') : sent'[i].to = c
                  /\ Cardinality(created) = (IF wsOpen[c] THEN 1 ELSE 0)
                  /\ \A i \in created :
                        /\ sent'[i].room = [exists |-> TRUE, id |-> rid, ownerId |-> uid,
                                            users |-> <<owner>>, revealed |-> FALSE]
                        /\ sent'[i].uid = uid]_vars

\* C16 witness: room:created has just been sent; the room it carries is the
\* one stored, and the receiving connection is bound to its owner
C16_Witness ==
    /\ Len(sent) = 1
    /\ sent[1].type = "room:created"
    /\ rooms[sent[1].room.id] = roomToRoomDocument(sent[1].room)
    /\ Len(sent[1].room.users) = 1
    /\ currentUserId[sent[1].to] = sent[1].room.ownerId
    /\ currentRoomId[sent[1].to] = sent[1].room.id
    /\ userSockets[sent[1].room.ownerId] = sent[1].to

\* C17: a user:vote, user:spectate, room:reveal or room:reset received on a
\* connection that has no participant or no room bound is answered in that
\* step by one room:error to that connection; no room document, registry
\* entry or binding changes, no handler stays in flight and nothing else is
\* sent.
C17_UnboundCommandsRejected ==
    [][\A c \in Conns :
        ( /\ (currentUserId[c] = Null \/ currentRoomId[c] = Null)
          /\ \/ RoomReveal(c)
             \/ \E vote \in Votes : UserVote(c, vote)
             \/ \E spectator \in BOOLEAN : UserSpectate(c, spectator)
             \/ RoomReset(c) )
        => /\ rooms' = rooms
           /\ userSockets' = userSockets
           /\ currentUserId' = currentUserId
           /\ currentRoomId' = currentRoomId
           /\ tasks' = tasks
           /\ Len(sent') = 1
           /\ sent'[1].to = c
           /\ sent'[1].type = "room:error"]_vars

\* C17 witness: while a room exists, a user:vote on a connection bound to
\* nothing has just been answered with room:error
C17_Witness ==
    /\ Len(sent) = 1
    /\ sent[1].type = "room:error"
    /\ sent[1].text = "No estas en una sala"
    /\ sent[1].op = "user:vote"
    /\ currentUserId[sent[1].to] = Null
    /\ Existing # {}

\* C18: a step that sends an error reply (room:error, or the generic error of
\* the catch and unknown-type branches) changes no room document, no registry
\* entry and no binding, and the handler that sends it has inserted no
\* document before (stated as the claim has it; room:create reaches the catch
\* branch after it has inserted, bound and replied).
C18_ErrorLeavesStateAlone ==
    [][(\E i \in 1..Len(sent') : sent'[i].type \in {"error", "room:error"})
        => /\ rooms' = rooms
           /\ userSockets' = userSockets
           /\ currentUserId' = currentUserId
           /\ currentRoomId' = currentRoomId
           /\ \A t \in Tasks :
                 (Moves(t) /\ tasks[t].pc = "create_inserted") => ~rooms[tasks[t].rid].exists]_vars

\* C19: a command of a connection is taken up only when no handler of that
\* connection is in flight (stated as the claim has it; the message callback is
\* an async function that the socket calls for every message as it arrives).
C19_NoInterleavingPerConnection ==
    [][\A c \in Conns : Receive(c) => \A t \in Tasks : tasks[t].conn # c]_vars

\* C20: the close of a connection bound to a participant starts that
\* participant's cleanup only when no handler of the connection is in flight
\* (stated as the claim has it; the close callback calls cleanupUser at once).
C20_CloseWaitsForHandlers ==
    [][\A c \in Conns :
        (wsOpen[c] /\ ~wsOpen'[c] /\ currentUserId[c] # Null)
        => \A t \in Tasks : tasks[t].conn # c]_vars

CleanupPcs == {"cleanup_find", "cleanup_found", "cleanup_pull", "cleanup_pulled",
               "cleanup_delete", "cleanup_deleted", "cleanup_owner", "cleanup_owned"}

RegisterPcs == {"create_insert", "create_inserted", "join_push", "join_pushed"}

\* C21: the step in which a connection bound to a participant closes removes
\* that participant's registry entry and touches no room document (the leave
\* is only started: its first store request is still to be applied); while
\* the leave is in flight the participant has no registry entry, no handler
\* is about to register it again, no message of any step is addressed to it,
\* and no message at all goes to a closed connection; a registry entry is
\* only ever set by the create or join that generated the participant.
C21_RegistryReleasedFirst ==
    [][/\ \A c \in Conns :
            (wsOpen[c] /\ ~wsOpen'[c] /\ currentUserId[c] # Null)
            => /\ userSockets'[currentUserId[c]] = Null
               /\ rooms' = rooms
               /\ \E t \in Tasks : /\ tasks[t].pc = "idle"
                                    /\ tasks'[t].pc = "cleanup_find"
                                    /\ tasks'[t].uid = currentUserId[c]
       /\ \A t \in Tasks :
            tasks'[t].pc \in CleanupPcs
            => /\ userSockets'[tasks'[t].uid] = Null
               /\ \A i \in 1..Len(sent') : sent'[i].uid # tasks'[t].uid
               /\ \A s \in Tasks :
                     tasks'[s].pc \in RegisterPcs => tasks'[s].uid # tasks'[t].uid
       /\ \A i \in 1..Len(sent') : wsOpen'[sent'[i].to]
       /\ \A u \in UserIds :
            (userSockets[u] = Null /\ userSockets'[u] # Null)
            => \E t \in Tasks : /\ tasks[t].pc \in {"create_inserted", "join_pushed"}
                                 /\ tasks[t].uid = u
                                 /\ Moves(t)]_vars

\* C21 witness: the leave of a participant has not yet removed it from users,
\* and a room:updated carrying a room that still lists it has just been sent
\* to another member and not to it
C21_Witness ==
    \E t \in Tasks :
        /\ tasks[t].pc \in {"cleanup_find", "cleanup_found", "cleanup_pull"}
        /\ ~tasks[t].again
        /\ \E r \in Existing : tasks[t].uid \in UserIdsOf(rooms[r])
        /\ Len(sent) >= 1
        /\ sent[1].type = "room:updated"
        /\ \E k \in 1..Len(sent[1].room.users) : sent[1].room.users[k].id = tasks[t].uid
        /\ \A i \in 1..Len(sent) : sent[i].uid # tasks[t].uid

\* C22: in every step and for every room document that is there before and
\* after it, revealed goes from false to true only in the store step of a
\* room:reveal that passed the ownership check, and from true to false only
\* in the store step of such a room:reset; the store steps of room:join,
\* user:vote, user:spectate and of a leave ($pull, $set ownerId) leave it
\* as it is.
C22_RevealedOnlyByRevealAndReset ==
    [][\A r \in RoomIds :
        (rooms[r].exists /\ rooms'[r].exists)
        => /\ (~rooms[r].revealed /\ rooms'[r].revealed)
                => \E t \in Tasks : /\ tasks[t].pc = "reveal_update"
                                     /\ tasks'[t].pc = "reveal_updated"
                                     /\ tasks[t].rid = r
           /\ (rooms[r].revealed /\ ~rooms'[r].revealed)
                => \E t \in Tasks : /\ tasks[t].pc = "reset_update"
                                     /\ tasks'[t].pc = "reset_updated"
                                     /\ tasks[t].rid = r
           /\ (\E t \in Tasks : /\ Moves(t)
                                 /\ tasks[t].pc \in {"join_push", "vote_update", "spectate_update",
                                                     "cleanup_pull", "cleanup_owner"})
                => rooms'[r].revealed = rooms[r].revealed]_vars

\* C22 witness: the owner of a revealed room of two has left; the $pull has
\* just been applied and the stored room is still revealed
C22_Witness ==
    \E t \in Tasks :
        /\ tasks[t].pc = "cleanup_pulled"
        /\ tasks[t].snap.exists
        /\ Len(tasks[t].snap.users) = 1
        /\ Head(tasks[t].affected).revealed
        /\ rooms[tasks[t].snap._id] = tasks[t].snap
        /\ rooms[tasks[t].snap._id].revealed

\* C29: the one store step of a user:vote sets the requester's vote to the
\* value sent and isReady to true, and nothing else: spectator flag, every
\* other participant, the order of users, ownerId, revealed and every other
\* room are as before; the handler is handed the stored document, and when
\* it resumes it sends room:updated with exactly that room to every member
\* with an open socket, the voter included, and nothing else.
C29_VoteSetsOwnVoteAndBroadcasts ==
    [][\A t \in Tasks :
        /\ Applies(t, "vote_update", "vote_updated")
            => LET before == rooms[tasks[t].rid]
                   after == rooms'[tasks[t].rid]
               IN  /\ OnlyMemberChanged(before, after, tasks[t].uid)
                   /\ Member(after, tasks[t].uid) =
                          [Member(before, tasks[t].uid) EXCEPT !.vote = tasks[t].arg,
                                                               !.isReady = "true"]
                   /\ tasks'[t].snap = after
                   /\ \A r \in RoomIds : r # tasks[t].rid => rooms'[r] = rooms[r]
        /\ (tasks[t].pc = "vote_updated" /\ Moves(t) /\ tasks[t].snap.exists)
            => LET doc == tasks[t].snap
                   live == {k \in 1..Len(doc.users) : isWsOpen(userSockets[doc.users[k].id])}
               IN  /\ rooms' = rooms
                   /\ Len(sent') = Cardinality(live)
                   /\ \A k \in live :
                         \E i \in 1..Len(sent') :
                             /\ sent'[i].uid = doc.users[k].id
                             /\ sent'[i].to = userSockets[doc.users[k].id]
                             /\ sent'[i].type = "room:updated"
                             /\ sent'[i].room = [exists |-> TRUE, id |-> doc._id,
                                                 ownerId |-> doc.ownerId, users |-> doc.users,
                                                 revealed |-> doc.revealed]]_vars

\* C29 witness: in a room of two, the vote of the second member has just been
\* broadcast to both members; the room carried is the stored one and has the
\* voter's vote and no vote of the other member
C29_Witness ==
    /\ Len(sent) = 2
    /\ sent[1].op = "user:vote"
    /\ sent[1].uid # sent[2].uid
    /\ sent[1].uid # sent[1].by
    /\ sent[2].uid = sent[2].by
    /\ rooms[sent[1].room.id] = roomToRoomDocument(sent[1].room)
    /\ sent[1].room.users[2].id = sent[1].by
    /\ sent[1].room.users[2].vote # Null
    /\ sent[1].room.users[2].isReady = "true"
    /\ sent[1].room.users[1].vote = Null

\* C23: when a step leaves no handler and no leave in flight, every
\* room:updated it sends to a member of a stored room carries that room
\* exactly as stored: it is the last room:updated that member receives
\* (stated as the claim has it; the reveal handler broadcasts the document it
\* read before its update, and handlers resume in any order).
C23_LastUpdateEqualsStore ==
    [][(\A t \in Tasks : tasks'[t].pc = "idle")
        => \A i \in 1..Len(sent') :
              ( /\ sent'[i].type = "room:updated"
                /\ rooms'[sent'[i].room.id].exists
                /\ sent'[i].uid \in UserIdsOf(rooms'[sent'[i].room.id]) )
              => rooms'[sent'[i].room.id] = roomToRoomDocument(sent'[i].room)]_vars

\* C24: the store applies the mutation of a room:reveal or room:reset only
\* if the requester is the stored room's ownerId at that moment; otherwise no
\* room document changes (stated as the claim has it; the ownership check is
\* a separate earlier read and the update's filter is the room id alone).
C24_MutationOnlyByCurrentOwner ==
    [][\A t \in Tasks :
        ( /\ tasks[t].pc \in {"reveal_update", "reset_update"}
          /\ Moves(t)
          /\ rooms[tasks[t].rid].exists
          /\ rooms[tasks[t].rid].ownerId # tasks[t].uid )
        => rooms' = rooms]_vars

\* C25: a room document goes out of the store only when its users is empty
\* at that moment (stated as the claim has it; the deleteOne of a leave is
\* filtered by room id alone and follows the $pull as a separate request, so
\* a join's $push may come in between).
C25_DeletedOnlyWhenEmpty ==
    [][\A r \in RoomIds :
        (rooms[r].exists /\ ~rooms'[r].exists) => Len(rooms[r].users) = 0]_vars

\* C26: for a closed connection, once no handler and no leave is in flight,
\* no registry entry maps to it and the participant it is bound to is in no
\* room (stated as the claim has it; the close callback cleans up only the
\* participant bound at that moment, and a create or join that resumes after
\* the close binds and registers its participant all the same).
C26_ClosedConnectionLeavesNobody ==
    \A c \in Conns :
        (~wsOpen[c] /\ \A t \in Tasks : tasks[t].pc = "idle")
        => /\ \A u \in UserIds : userSockets[u] # c
           /\ currentUserId[c] # Null => InNoRoom(currentUserId[c])

\* C27: no two participant ids of the registry map to the same connection
\* (stated as the claim has it; a second room:create or room:join on a
\* connection adds an entry and leaves the earlier one in place).
C27_OneParticipantPerConnection ==
    \A u1, u2 \in UserIds :
        (u1 # u2 /\ userSockets[u1] # Null) => userSockets[u1] # userSockets[u2]

\* C28: whenever no leave is in flight, the ownerId of every stored room is
\* the id of one of its users (stated as the claim has it; two leaves of one
\* room run interleaved, and the $set of ownerId names the first user of the
\* document its own $pull returned).
C28_OwnerIsMemberWhenNoLeave ==
    (\A t \in Tasks : tasks[t].pc \notin CleanupPcs)
    => \A r \in Existing : rooms[r].ownerId \in UserIdsOf(rooms[r])

\* C30: every stored vote is unset or one of the room's cards (stated as the
\* claim has it; the vote handler stores whatever value the message carries).
C30_VotesAreCards ==
    \A r \in Existing :
        \A i \in 1..Len(rooms[r].users) :
            rooms[r].users[i].vote = Null \/ rooms[r].users[i].vote \in Cards

\* the participants a broadcast call has to reach: in the snapshot, not the
\* excluded one, registered to an open socket whose send does not throw
Reached(t) ==
    {k \in 1..Len(tasks[t].snap.users) :
        LET id == tasks[t].snap.users[k].id
        IN  /\ ~(tasks[t].exclude # Null /\ id = tasks[t].exclude)
            /\ userSockets[id] # Null
            /\ wsOpen[userSockets[id]]
            /\ userSockets[id] \notin tasks[t].throws}

\* C31: a call of broadcast completes in its one step whatever the sockets
\* do; it sends the message exactly once to each participant it has to
\* reach, on that participant's registered socket, in the order of the
\* snapshot, and sends nothing else: an absent or closed socket, the excluded
\* participant and a send that throws are passed over and the participants
\* after them are still served; registry and sockets are left as they are.
C31_BroadcastReachesExactlyTheLive ==
    [][\A t \in Tasks :
        (tasks[t].pc = "broadcast" /\ Moves(t))
        => LET users == tasks[t].snap.users
           IN  /\ tasks'[t].pc = "broadcast_done"
               /\ userSockets' = userSockets
               /\ wsOpen' = wsOpen
               /\ Len(sent') = Cardinality(Reached(t))
               /\ \A k \in Reached(t) :
                     /\ Cardinality({i \in 1..Len(sent') : sent'[i].uid = users[k].id}) = 1
                     /\ \A i \in 1..Len(sent') :
                           sent'[i].uid = users[k].id
                           => /\ sent'[i].to = userSockets[users[k].id]
                              /\ sent'[i].type = "room:updated"
                              /\ sent'[i].room = roomDocumentToRoom(tasks[t].snap)
               /\ \A i \in 1..Len(sent') : \E k \in Reached(t) : sent'[i].uid = users[k].id
               /\ \A i, j \in 1..Len(sent') : i < j => sent'[i].uid < sent'[j].uid]_vars

\* C31 witness: a snapshot of three; the send to the first participant threw,
\* the second has no open socket, and the third has just been sent the message
C31_Witness ==
    \E t \in Tasks :
        /\ tasks[t].pc = "broadcast_done"
        /\ Len(tasks[t].snap.users) = 3
        /\ tasks[t].exclude = Null
        /\ userSockets[1] # Null /\ wsOpen[userSockets[1]] /\ userSockets[1] \in tasks[t].throws
        /\ ~isWsOpen(userSockets[2])
        /\ Len(sent) = 1
        /\ sent[1].uid = 3
        /\ sent[1].to = userSockets[3]

\* C32: given that the store answers every request, every handler started
\* for a command runs to its end; a command that is answered within the
\* step that receives it has a message to its connection in that step, and
\* the step in which a handler ends has a message to the requester's
\* connection (room:created, room:joined, a room:updated of a broadcast that
\* includes the requester, or an error reply), as long as that connection is
\* still open.
C32_EveryCommandCompletesWithReply ==
    /\ [][/\ \A c \in Conns :
                (Receive(c) /\ tasks' = tasks) => \E i \in 1..Len(sent') : sent'[i].to = c
          /\ \A t \in Tasks :
                ( /\ tasks[t].conn # Null
                  /\ tasks[t].pc # "idle"
                  /\ tasks'[t].pc = "idle"
                  /\ wsOpen[tasks[t].conn] )
                => \E i \in 1..Len(sent') : sent'[i].to = tasks[t].conn]_vars
    /\ \A t \in Tasks :
          (tasks[t].conn # Null /\ tasks[t].pc # "idle") ~> (tasks[t].pc = "idle")

\* C32 witness: every command of the run has been received and every handler
\* has ended; the last to end was a room:reveal that ran interleaved with
\* another handler, and its room:updated has just gone to the requester
C32_Witness ==
    /\ ncmds = MaxLiveCmds
    /\ \A t \in Tasks : tasks[t].pc = "idle"
    /\ Len(sent) >= 1
    /\ sent[1].op = "room:reveal"
    /\ sent[1].type = "room:updated"
    /\ sent[1].uid = sent[1].by
    /\ \E r \in Existing : roomToRoomDocument(sent[1].room) # [rooms[r] EXCEPT !.revealed = TRUE]

====
